---- MODULE Spec2Model ----
(***************************************************************************)
(* The four command-line pipelines of the email labeler                    *)
(*   train_important.py, train_label_router.py,                            *)
(*   infer_important.py, infer_label_router.py                             *)
(* as one state machine: a file system of pickled artifacts, and one       *)
(* process invocation at a time walking through its main().                *)
(*                                                                         *)
(* Representation.  Python strings that are compared or sorted (labels,    *)
(* texts) are sequences of letter codes (a = 1 .. z = 26); names that are  *)
(* only passed around (paths, model names, messages) are TLA+ strings.     *)
(* dicts are functions from keys to values, a missing key being a key      *)
(* outside DOMAIN.  JSON values of a row are tagged records so that        *)
(* Python truthiness can be computed.  Probabilities are integers in       *)
(* units of 10^-6.                                                         *)
(***************************************************************************)
EXTENDS Integers, Sequences, FiniteSets, TLC

VARIABLES
    files,      \* the file system: path -> unpickled artifact (a dict)
    pipeline,   \* the script of the current invocation
    argv,       \* sys.argv[1:] of the current invocation
    environ,    \* os.environ of the current invocation
    deps,       \* whether the imports of the try block succeed
    data,       \* json.load of the data file (training only)
    pc,         \* position of the invocation inside main()
    local,      \* the local variables of main(), name -> value
    stdout,     \* lines printed on stdout by the invocation
    stderr,     \* lines printed on stderr by the invocation
    exit_code,  \* the process exit status, meaningful when pc = "done"
    calls       \* the calls the invocation made to its collaborators, in order

vars == <<files, pipeline, argv, environ, deps, data, pc, local, stdout, stderr,
          exit_code, calls>>

---------------------------------------------------------------------------
(* Bounds of the model *)

\* longest training data file, in rows
MaxSamples == 3
\* longest classes_ list (and probability vector) a classifier reports
MaxClasses == 3

---------------------------------------------------------------------------
(* Python values *)

None == [k |-> "none"]
Str(s) == [k |-> "str", s |-> s]
Bool(b) == [k |-> "bool", b |-> b]

\* bool(v)
Truthy(v) ==
    CASE v.k = "none" -> FALSE
      [] v.k = "str"  -> v.s # <<>>
      [] v.k = "bool" -> v.b

\* d.get(key)
Get(d, key) == IF key \in DOMAIN d THEN d[key] ELSE None

\* d.get(key, default) on a dict of plain values
GetDefault(d, key, default) == IF key \in DOMAIN d THEN d[key] ELSE default

\* x or y
Or(x, y) == IF Truthy(x) THEN x ELSE y

\* set(seq)
SetOf(seq) == {seq[i] : i \in DOMAIN seq}

\* str(b) of a bool, as an f-string formats it
BoolStr(b) == IF b THEN "True" ELSE "False"

\* the letters used
Word_a == <<1>>
Word_ab == <<1, 2>>
Word_b == <<2>>
Word_hi == <<8, 9>>
Word_other == <<15, 20, 8, 5, 18>>

\* s < t on Python strings: code point by code point, a proper prefix first
RECURSIVE StrLess(_, _)
StrLess(s, t) ==
    IF s = <<>> THEN t # <<>>
    ELSE IF t = <<>> THEN FALSE
    ELSE IF s[1] # t[1] THEN s[1] < t[1]
    ELSE StrLess(Tail(s), Tail(t))

\* sorted(S) of a set of strings
RECURSIVE Sorted(_)
Sorted(S) ==
    IF S = {} THEN <<>>
    ELSE LET m == CHOOSE x \in S : \A y \in S \ {x} : StrLess(x, y)
         IN  <<m>> \o Sorted(S \ {m})

\* all sequences over S of length 0 .. n
SeqsUpTo(S, n) == UNION {[1..m -> S] : m \in 0..n}

---------------------------------------------------------------------------
(* The environment of an invocation *)

DefaultModel == "all-MiniLM-L6-v2"
CustomModel == "custom-embedder"

ImportantDefaultPath == "./important_model.pkl"
RouterDefaultPath == "./label_router_model.pkl"
Paths == {ImportantDefaultPath, RouterDefaultPath}

\* os.environ: EMBEDDING_MODEL unset or set
Environs == {<<>>, [EMBEDDING_MODEL |-> CustomModel]}

\* sys.argv[1:] of a training run: nothing, the data file, the data file and an output path
TrainArgv == {<<>>, <<"data.json">>} \cup {<<"data.json", p>> : p \in Paths}

\* sys.argv[1:] of an inference run: nothing, the model path only, the model path and a text
InferArgv == {<<>>} \cup {<<p>> : p \in Paths} \cup {<<p, Word_hi>> : p \in Paths}

\* rows of an importance data file: both labels, and a row with neither key
ImportantRows ==
    { [text |-> Str(Word_hi), important |-> Bool(TRUE)],
      [text |-> Str(Word_a), important |-> Bool(FALSE)],
      <<>> }

\* rows of a router data file: two labels, an empty label, and a row with neither key
RouterRows ==
    { [text |-> Str(Word_hi), target_label |-> Str(Word_ab)],
      [text |-> Str(Word_a), target_label |-> Str(Word_a)],
      [text |-> Str(Word_b), target_label |-> Str(<<>>)],
      <<>> }

ImportantData == SeqsUpTo(ImportantRows, MaxSamples)
RouterData == SeqsUpTo(RouterRows, MaxSamples)

---------------------------------------------------------------------------
(* Steps shared by the four main() functions *)

\* a new process: fresh argv, environment, locals and output streams
Begin(script, a, e, d, rows) ==
    /\ pipeline' = script
    /\ argv' = a
    /\ environ' = e
    /\ deps' = d
    /\ data' = rows

\* the process ends with its diagnostics printed on stdout
FinishOnStdout(code, out, err, loc, log) ==
    /\ pc' = "done"
    /\ exit_code' = code
    /\ stdout' = out \o err
    /\ stderr' = <<>>
    /\ local' = loc
    /\ calls' = log

\* the process ends with the given status, having printed out and err
Finish(code, out, err, loc, log) ==
    /\ pc' = "done"
    /\ exit_code' = code
    /\ stdout' = out
    /\ stderr' = err
    /\ local' = loc
    /\ calls' = log

\* the process goes on to the next position of main()
Goto(next, loc, log) ==
    /\ pc' = next
    /\ local' = loc
    /\ calls' = log
    /\ UNCHANGED <<stdout, stderr, exit_code>>

\* an exception nobody catches: traceback on stderr, exit status 1
Raise(what, log) ==
    /\ Finish(1, stdout, Append(stderr, <<"Traceback", what>>), local, log)
    /\ UNCHANGED <<files, pipeline, argv, environ, deps, data>>

\* embedder.encode(texts) of SentenceTransformer(name): determined by the model and the texts
Encode(name, texts) == [model |-> name, texts |-> texts]

\* clf.fit(X, y): the fitted classifier lives in the vector space of X's model
Fit(clf, X, y) == clf @@ [fitted_on |-> X.model]

---------------------------------------------------------------------------
(* train_important.py *)

\* texts = [row.get("text") or "" for row in data]
Texts(rows) == [i \in DOMAIN rows |-> Or(Get(rows[i], "text"), Str(<<>>)).s]

\* labels = [bool(row.get("important")) for row in data]
Labels(rows) == [i \in DOMAIN rows |-> Truthy(Get(rows[i], "important"))]

\* the guard written as "no labels at all"
TooFewLabelsOffByOne(labels) == Cardinality(SetOf(labels)) < 1

\* len(set(labels)) < 2
TooFewLabels(labels) == Cardinality(SetOf(labels)) < 2

\* the result printed when training is skipped
ImportantSkipped(rows, labels) ==
    [samples |-> Len(rows),
     skipped |-> TRUE,
     reason  |-> <<"Need both True and False labels to train, got only ", BoolStr(labels[1])>>]

\* sys.argv[2] if len(sys.argv) > 2 else the default path
OutPath(a, default) == IF Len(a) + 1 > 2 THEN a[2] ELSE default

\* main(), from the argument check to the degenerate-label guard
TrainImportantStart ==
    /\ pc = "idle"
    /\ \E a \in TrainArgv, e \in Environs, d \in BOOLEAN :
       \E rows \in (IF a = <<>> THEN {<<>>} ELSE ImportantData) :
        /\ Begin("train_important", a, e, d, rows)
        /\ UNCHANGED files
        /\ IF Len(a) + 1 < 2
             THEN Finish(1, <<>>, <<"Usage: train_important.py <data.json> [output.pkl]">>,
                         <<>>, <<>>)
           ELSE IF rows = <<>>
             THEN Finish(1, <<>>, <<"No samples">>, <<>>, <<>>)
           ELSE IF ~d
             THEN Finish(2, <<>>, <<"Import error">>, <<>>, <<>>)
           ELSE LET loc == [texts |-> Texts(rows), labels |-> Labels(rows)]
                IN  IF TooFewLabels(loc.labels)
                      THEN Finish(0, <<ImportantSkipped(rows, loc.labels)>>, <<>>, loc, <<>>)
                      ELSE /\ pc' = "embed"
                           /\ local' = loc
                           /\ calls' = <<>>
                           /\ stdout' = <<>>
                           /\ stderr' = <<>>
                           /\ exit_code' = 0

\* model_name = os.environ.get(...); X = SentenceTransformer(model_name).encode(texts)
TrainImportantEmbed ==
    /\ pipeline = "train_important"
    /\ pc = "embed"
    /\ LET model_name == GetDefault(environ, "EMBEDDING_MODEL", DefaultModel)
           log == Append(calls, [op |-> "encode", model |-> model_name, texts |-> local.texts])
       IN  \/ /\ Goto("fit", [model_name |-> model_name,
                              X |-> Encode(model_name, local.texts)] @@ local, log)
              /\ UNCHANGED <<files, pipeline, argv, environ, deps, data>>
           \/ Raise("encode", log)

\* clf = LogisticRegression(max_iter=500); clf.fit(X, labels)
TrainImportantFit ==
    /\ pipeline = "train_important"
    /\ pc = "fit"
    /\ LET log == Append(calls, [op |-> "fit", y |-> local.labels])
       IN  \/ /\ Goto("write", [clf |-> Fit([max_iter |-> 500], local.X, local.labels)]
                               @@ local, log)
              /\ UNCHANGED <<files, pipeline, argv, environ, deps, data>>
           \/ Raise("fit", log)

\* the artifact pickled by train_important.py
ImportantArtifact(loc) == [embedder_name |-> loc.model_name, classifier |-> loc.clf]

\* out_path = ...; pickle.dump({...}, open(out_path, "wb"))
TrainImportantWrite ==
    /\ pipeline = "train_important"
    /\ pc = "write"
    /\ LET out_path == OutPath(argv, ImportantDefaultPath)
       IN  /\ files' = (out_path :> ImportantArtifact(local)) @@ files
           /\ Goto("print", [out_path |-> out_path] @@ local,
                   Append(calls, [op |-> "dump", path |-> out_path]))
    /\ UNCHANGED <<pipeline, argv, environ, deps, data>>

\* print(json.dumps({"samples": len(data), "path": out_path})), then main() returns
TrainImportantPrint ==
    /\ pipeline = "train_important"
    /\ pc = "print"
    /\ Finish(0, <<[samples |-> Len(data), path |-> local.out_path]>>, stderr, local, calls)
    /\ UNCHANGED <<files, pipeline, argv, environ, deps, data>>

---------------------------------------------------------------------------
(* train_label_router.py *)

\* targets = [row.get("target_label") or "other" for row in data]
Targets(rows) == [i \in DOMAIN rows |-> Or(Get(rows[i], "target_label"), Str(Word_other)).s]

\* the distinct targets in the order they are first seen
RECURSIVE FirstSeen(_)
FirstSeen(targets) ==
    IF targets = <<>> THEN <<>>
    ELSE LET front == FirstSeen(SubSeq(targets, 1, Len(targets) - 1))
             last  == targets[Len(targets)]
         IN  IF last \in SetOf(front) THEN front ELSE Append(front, last)

\* label_list = sorted(set(targets))
LabelList(targets) == Sorted(SetOf(targets))

\* the guard written as "no labels at all"
TooFewClassesOffByOne(label_list) == Len(label_list) < 1

\* len(label_list) < 2
TooFewClasses(label_list) == Len(label_list) < 2

\* the skipped result with the number of samples reported as the number of labels
RouterSkippedCountsRows(rows, label_list) ==
    [samples |-> Len(rows),
     labels  |-> Len(rows),
     skipped |-> TRUE,
     reason  |-> <<"Need at least 2 distinct labels to train, got ", Len(rows)>>]

\* the result printed when training is skipped
RouterSkipped(rows, label_list) ==
    [samples |-> Len(rows),
     labels  |-> Len(label_list),
     skipped |-> TRUE,
     reason  |-> <<"Need at least 2 distinct labels to train, got ", Len(label_list)>>]

\* main(), from the argument check to the degenerate-label guard
TrainRouterStart ==
    /\ pc = "idle"
    /\ \E a \in TrainArgv, e \in Environs, d \in BOOLEAN :
       \E rows \in (IF a = <<>> THEN {<<>>} ELSE RouterData) :
        /\ Begin("train_label_router", a, e, d, rows)
        /\ UNCHANGED files
        /\ IF Len(a) + 1 < 2
             THEN Finish(1, <<>>, <<"Usage: train_label_router.py <data.json> [output.pkl]">>,
                         <<>>, <<>>)
           ELSE IF rows = <<>>
             THEN Finish(1, <<>>, <<"No samples">>, <<>>, <<>>)
           ELSE IF ~d
             THEN Finish(2, <<>>, <<"Import error">>, <<>>, <<>>)
           ELSE LET targets == Targets(rows)
                    loc == [texts |-> Texts(rows), targets |-> targets,
                            label_list |-> LabelList(targets)]
                IN  IF TooFewClasses(loc.label_list)
                      THEN Finish(0, <<RouterSkipped(rows, loc.label_list)>>, <<>>, loc, <<>>)
                      ELSE /\ pc' = "embed"
                           /\ local' = loc
                           /\ calls' = <<>>
                           /\ stdout' = <<>>
                           /\ stderr' = <<>>
                           /\ exit_code' = 0

\* model_name = os.environ.get(...); X = SentenceTransformer(model_name).encode(texts)
TrainRouterEmbed ==
    /\ pipeline = "train_label_router"
    /\ pc = "embed"
    /\ LET model_name == GetDefault(environ, "EMBEDDING_MODEL", DefaultModel)
           log == Append(calls, [op |-> "encode", model |-> model_name, texts |-> local.texts])
       IN  \/ /\ Goto("fit", [model_name |-> model_name,
                              X |-> Encode(model_name, local.texts)] @@ local, log)
              /\ UNCHANGED <<files, pipeline, argv, environ, deps, data>>
           \/ Raise("encode", log)

\* clf = LogisticRegression(max_iter=500, solver="lbfgs"); clf.fit(X, targets)
TrainRouterFit ==
    /\ pipeline = "train_label_router"
    /\ pc = "fit"
    /\ LET log == Append(calls, [op |-> "fit", y |-> local.targets])
       IN  \/ /\ Goto("write", [clf |-> Fit([max_iter |-> 500, solver |-> "lbfgs"],
                                            local.X, local.targets)] @@ local, log)
              /\ UNCHANGED <<files, pipeline, argv, environ, deps, data>>
           \/ Raise("fit", log)

\* the artifact with the default model name stored whatever model embedded the samples
RouterArtifactDefaultName(loc) ==
    [embedder_name |-> DefaultModel, classifier |-> loc.clf, label_list |-> loc.label_list]

\* the artifact pickled by train_label_router.py
RouterArtifact(loc) ==
    [embedder_name |-> loc.model_name, classifier |-> loc.clf, label_list |-> loc.label_list]

\* out_path = ...; pickle.dump({...}, open(out_path, "wb"))
TrainRouterWrite ==
    /\ pipeline = "train_label_router"
    /\ pc = "write"
    /\ LET out_path == OutPath(argv, RouterDefaultPath)
       IN  /\ files' = (out_path :> RouterArtifact(local)) @@ files
           /\ Goto("print", [out_path |-> out_path] @@ local,
                   Append(calls, [op |-> "dump", path |-> out_path]))
    /\ UNCHANGED <<pipeline, argv, environ, deps, data>>

\* print(json.dumps({"samples": ..., "labels": ..., "path": out_path})), then main() returns
TrainRouterPrint ==
    /\ pipeline = "train_label_router"
    /\ pc = "print"
    /\ Finish(0, <<[samples |-> Len(data), labels |-> Len(local.label_list),
                    path |-> local.out_path]>>, stderr, local, calls)
    /\ UNCHANGED <<files, pipeline, argv, environ, deps, data>>

---------------------------------------------------------------------------
(* Probabilities: floats in [0, 1] as integers in units of 10^-6 *)

\* round(p, 4) keeps 4 decimal digits
Digits == 4
Unit == 10 ^ (Digits + 2)
\* the literal 0.5 of the threshold test
Threshold == 5 * 10 ^ (Digits + 1)

\* the probability cut after 4 decimal digits
Truncate(p) == {(p \div 10 ^ 2) * 10 ^ 2}

\* round(p, 4).  A float is not the decimal it prints as, so a decimal tie goes
\* to either neighbour, as the float behind it lies below or above the tie.
Round(p) ==
    LET step == 10 ^ 2
        lo   == (p \div step) * step
        r    == p % step
    IN  IF 2 * r < step THEN {lo}
        ELSE IF 2 * r > step THEN {lo + step}
        ELSE {lo, lo + step}

\* probabilities around the threshold and around the rounding ties next to it
FineProbs ==
    {0, 300000, 400000, 499940, 499949, 499950, 499951, 499999,
     500000, 500001, 500049, 500050, 500051, 600000, 700000, Unit}

CoarseProbs == {400000, 500000, 700000}

\* what predict_proba(embedding)[0] returns to infer_important.py
BinaryProbas ==
    {<<p>> : p \in FineProbs} \cup {<<Unit - p, p>> : p \in FineProbs}
    \cup UNION {[1..n -> CoarseProbs] : n \in 1..MaxClasses}

\* the labels a router classifier can have learned
AllLabels == {Word_a, Word_ab, Word_b, Word_other}

\* classifier.classes_: distinct labels in an order of the classifier's choosing
ClassLists ==
    {c \in SeqsUpTo(AllLabels, MaxClasses) :
        /\ c # <<>>
        /\ \A i, j \in DOMAIN c : i # j => c[i] # c[j]}

\* what predict_proba(embedding)[0] returns for n classes
RouterProbas(n) ==
    {[i \in 1..n |-> i * 100000], [i \in 1..n |-> (n + 1 - i) * 100000 + 50000]}

---------------------------------------------------------------------------
(* infer_important.py *)

\* main(), from the argument check to the unpacking of the artifact
InferImportantStart ==
    /\ pc = "idle"
    /\ \E a \in InferArgv, e \in Environs, d \in BOOLEAN :
        /\ Begin("infer_important", a, e, d, <<>>)
        /\ UNCHANGED files
        /\ IF Len(a) + 1 < 3
             THEN Finish(1, <<>>, <<"Usage: infer_important.py <model.pkl> <text>">>, <<>>, <<>>)
           ELSE IF ~d
             THEN Finish(2, <<>>, <<"Import error">>, <<>>, <<>>)
           ELSE LET args == [model_path |-> a[1], text |-> a[2]]
                IN  IF args.model_path \notin DOMAIN files
                      THEN Finish(1, <<>>, <<<<"Traceback", "FileNotFoundError">>>>, args, <<>>)
                    ELSE LET artifact == files[args.model_path]
                             loc == [artifact |-> artifact,
                                     embedder_name |->
                                         GetDefault(artifact, "embedder_name", DefaultModel)]
                                    @@ args
                         IN  IF "classifier" \notin DOMAIN artifact
                               THEN Finish(1, <<>>, <<<<"Traceback", "KeyError">>>>, loc, <<>>)
                               ELSE /\ pc' = "embed"
                                    /\ local' = [classifier |-> artifact.classifier] @@ loc
                                    /\ calls' = <<>>
                                    /\ stdout' = <<>>
                                    /\ stderr' = <<>>
                                    /\ exit_code' = 0

\* embedding = SentenceTransformer(embedder_name).encode([text])
InferImportantEmbed ==
    /\ pipeline = "infer_important"
    /\ pc = "embed"
    /\ LET log == Append(calls, [op |-> "encode", model |-> local.embedder_name,
                                 texts |-> <<local.text>>])
       IN  \/ /\ Goto("predict", [embedding |-> Encode(local.embedder_name, <<local.text>>)]
                                 @@ local, log)
              /\ UNCHANGED <<files, pipeline, argv, environ, deps, data>>
           \/ Raise("encode", log)

\* float(proba[1]) if len(proba) > 1 else float(proba[0])
PImportant(proba) == IF Len(proba) > 1 THEN proba[2] ELSE proba[1]

\* the threshold test with 0.5 itself excluded
ImportantStrict(p_important) == p_important > Threshold

\* p_important >= 0.5
Important(p_important) == p_important >= Threshold

\* the results infer_important.py can print for a probability
ImportantReports(p_important) ==
    {[important |-> Important(p_important), probability |-> r] : r \in Round(p_important)}

\* proba = classifier.predict_proba(embedding)[0]; ...; print(json.dumps({...}))
InferImportantPredict ==
    /\ pipeline = "infer_important"
    /\ pc = "predict"
    /\ LET log == Append(calls, [op |-> "predict_proba", X |-> local.embedding])
       IN  \/ \E proba \in BinaryProbas :
              \E report \in ImportantReports(PImportant(proba)) :
                /\ Finish(0, <<report>>, stderr,
                          [proba |-> proba, p_important |-> PImportant(proba),
                           important |-> Important(PImportant(proba))] @@ local, log)
                /\ UNCHANGED <<files, pipeline, argv, environ, deps, data>>
           \/ Raise("predict_proba", log)

---------------------------------------------------------------------------
(* infer_label_router.py *)

\* main(), from the argument check to the unpacking of the artifact
InferRouterStart ==
    /\ pc = "idle"
    /\ \E a \in InferArgv, e \in Environs, d \in BOOLEAN :
        /\ Begin("infer_label_router", a, e, d, <<>>)
        /\ UNCHANGED files
        /\ IF Len(a) + 1 < 3
             THEN Finish(1, <<>>, <<"Usage: infer_label_router.py <model.pkl> <text>">>,
                         <<>>, <<>>)
           ELSE IF ~d
             THEN Finish(2, <<>>, <<"Import error">>, <<>>, <<>>)
           ELSE LET args == [model_path |-> a[1], text |-> a[2]]
                IN  IF args.model_path \notin DOMAIN files
                      THEN Finish(1, <<>>, <<<<"Traceback", "FileNotFoundError">>>>, args, <<>>)
                    ELSE LET artifact == files[args.model_path]
                             loc == [artifact |-> artifact,
                                     embedder_name |->
                                         GetDefault(artifact, "embedder_name", DefaultModel)]
                                    @@ args
                         IN  IF \/ "classifier" \notin DOMAIN artifact
                                \/ "label_list" \notin DOMAIN artifact
                               THEN Finish(1, <<>>, <<<<"Traceback", "KeyError">>>>, loc, <<>>)
                               ELSE /\ pc' = "embed"
                                    /\ local' = [classifier |-> artifact.classifier,
                                                 label_list |-> artifact.label_list] @@ loc
                                    /\ calls' = <<>>
                                    /\ stdout' = <<>>
                                    /\ stderr' = <<>>
                                    /\ exit_code' = 0

\* embedding = SentenceTransformer(embedder_name).encode([text])
InferRouterEmbed ==
    /\ pipeline = "infer_label_router"
    /\ pc = "embed"
    /\ LET log == Append(calls, [op |-> "encode", model |-> local.embedder_name,
                                 texts |-> <<local.text>>])
       IN  \/ /\ Goto("predict", [embedding |-> Encode(local.embedder_name, <<local.text>>)]
                                 @@ local, log)
              /\ UNCHANGED <<files, pipeline, argv, environ, deps, data>>
           \/ Raise("encode", log)

\* classes.index(label), counted from 1
Index(classes, label) ==
    CHOOSE i \in DOMAIN classes :
        /\ classes[i] = label
        /\ \A j \in 1..(i - 1) : classes[j] # label

\* d[key] = value on a dict that keeps insertion order
DictSet(d, key, value) ==
    IF \E i \in DOMAIN d : d[i].key = key
      THEN [i \in DOMAIN d |-> IF d[i].key = key THEN [key |-> key, value |-> value] ELSE d[i]]
      ELSE Append(d, [key |-> key, value |-> value])

\* the loop body with the probabilities read in label_list order
WeightByPosition(i, label, classes, proba) ==
    IF i <= Len(proba) THEN proba[i] ELSE 0

\* the weight the body of "for i, label in enumerate(label_list)" gives a label
Weight(i, label, classes, proba) ==
    IF label \in SetOf(classes) THEN proba[Index(classes, label)] ELSE 0

\* head_weights after the first n rounds of the loop over label_list
RECURSIVE HeadWeights(_, _, _, _)
HeadWeights(label_list, classes, proba, n) ==
    IF n = 0 THEN <<>>
    ELSE DictSet(HeadWeights(label_list, classes, proba, n - 1),
                 label_list[n], Weight(n, label_list[n], classes, proba))

\* proba = ...; classes = list(classifier.classes_); the loop; print(json.dumps({...}))
InferRouterPredict ==
    /\ pipeline = "infer_label_router"
    /\ pc = "predict"
    /\ LET log == Append(calls, [op |-> "predict_proba", X |-> local.embedding])
       IN  \/ \E classes \in ClassLists :
              \E proba \in RouterProbas(Len(classes)) :
                LET head_weights == HeadWeights(local.label_list, classes, proba,
                                                Len(local.label_list))
                IN  /\ Finish(0, <<[head_weights |-> head_weights,
                                    label_list |-> local.label_list]>>, stderr,
                              [proba |-> proba, classes |-> classes,
                               head_weights |-> head_weights] @@ local, log)
                    /\ UNCHANGED <<files, pipeline, argv, environ, deps, data>>
           \/ Raise("predict_proba", log)

---------------------------------------------------------------------------

\* artifacts that are at a path before any pipeline of this repository has run
ExternalArtifacts ==
    { [classifier |-> [max_iter |-> 500, fitted_on |-> CustomModel]],
      [embedder_name |-> CustomModel],
      [embedder_name |-> DefaultModel,
       classifier |-> [max_iter |-> 500, solver |-> "lbfgs", fitted_on |-> DefaultModel]],
      [embedder_name |-> DefaultModel,
       classifier |-> [max_iter |-> 500, solver |-> "lbfgs", fitted_on |-> DefaultModel],
       label_list |-> <<Word_b, Word_a>>] }

\* no process is running: nothing is left of the last one but the files
NoProcess ==
    /\ pipeline = "none"
    /\ argv = <<>>
    /\ environ = <<>>
    /\ deps = TRUE
    /\ data = <<>>
    /\ pc = "idle"
    /\ local = <<>>
    /\ stdout = <<>>
    /\ stderr = <<>>
    /\ exit_code = 0
    /\ calls = <<>>

Init ==
    /\ files \in {<<>>} \cup {(RouterDefaultPath :> x) : x \in ExternalArtifacts}
    /\ NoProcess

\* the interpreter exits: the process and its streams are gone, the files stay
ProcessExit ==
    /\ pc = "done"
    /\ pipeline' = "none"
    /\ argv' = <<>>
    /\ environ' = <<>>
    /\ deps' = TRUE
    /\ data' = <<>>
    /\ pc' = "idle"
    /\ local' = <<>>
    /\ stdout' = <<>>
    /\ stderr' = <<>>
    /\ exit_code' = 0
    /\ calls' = <<>>
    /\ UNCHANGED files

Next ==
    \/ TrainImportantStart
    \/ TrainImportantEmbed
    \/ TrainImportantFit
    \/ TrainImportantWrite
    \/ TrainImportantPrint
    \/ TrainRouterStart
    \/ TrainRouterEmbed
    \/ TrainRouterFit
    \/ TrainRouterWrite
    \/ TrainRouterPrint
    \/ InferImportantStart
    \/ InferImportantEmbed
    \/ InferImportantPredict
    \/ InferRouterStart
    \/ InferRouterEmbed
    \/ InferRouterPredict
    \/ ProcessExit

Spec == Init /\ [][Next]_vars

---------------------------------------------------------------------------
(* Properties *)

IsTraining == pipeline \in {"train_important", "train_label_router"}
IsInference == pipeline \in {"infer_important", "infer_label_router"}

\* the invocation got past the usage, empty-dataset and import checks of a training main()
TrainingGotIn == IsTraining /\ Len(argv) >= 1 /\ data # <<>> /\ deps

\* the "important" flag of a row, a missing flag counting as false
Flag(row) == ("important" \in DOMAIN row) /\ row.important = Bool(TRUE)

\* the target label of a row, a missing or empty one counting as "other"
Target(row) ==
    IF "target_label" \in DOMAIN row /\ row.target_label # Str(<<>>)
      THEN row.target_label.s
      ELSE Word_other

\* s comes before t in the lexicographic order of strings
LexBefore(s, t) ==
    \E k \in 0..Len(s) :
        /\ k <= Len(t)
        /\ \A i \in 1..k : s[i] = t[i]
        /\ \/ k = Len(s) /\ k < Len(t)
           \/ k < Len(s) /\ k < Len(t) /\ s[k + 1] < t[k + 1]

\* the permutations of a sequence
Reorderings(seq) ==
    {[i \in DOMAIN seq |-> seq[f[i]]] :
        f \in {g \in [DOMAIN seq -> DOMAIN seq] : \A i, j \in DOMAIN seq : i # j => g[i] # g[j]}}

\* a router inference has printed its report
RouterReported == pipeline = "infer_label_router" /\ pc = "done" /\ stdout # <<>>

\* C1: router inference alignment.  Whenever infer_label_router.py has printed a
\* report, head_weights has exactly one entry per label of the artifact's
\* label_list, in label_list order; the entry of a label that occurs in classes_
\* is proba at the label's position in classes_, the entry of a label that does
\* not occur in classes_ is 0.0; and the reported label_list is the artifact's.
ThmRouterAlignment ==
    RouterReported =>
        LET ll      == files[argv[1]].label_list
            classes == local.classes
            proba   == local.proba
            hw      == stdout[1].head_weights
        IN  /\ stdout[1].label_list = ll
            /\ Len(hw) = Len(ll)
            /\ \A i \in DOMAIN ll :
                /\ hw[i].key = ll[i]
                /\ \A j \in DOMAIN classes : classes[j] = ll[i] => hw[i].value = proba[j]
                /\ (\A j \in DOMAIN classes : classes[j] # ll[i]) => hw[i].value = 0

\* a report where one catalog label sits at another position in classes_ and
\* another catalog label is missing from classes_
WitRouterAlignment ==
    /\ RouterReported
    /\ \E i \in DOMAIN local.label_list, j \in DOMAIN local.classes :
        i # j /\ local.classes[j] = local.label_list[i]
    /\ \E i \in DOMAIN local.label_list :
        /\ local.label_list[i] \notin SetOf(local.classes)
        /\ stdout[1].head_weights[i].value = 0

\* a training run of train_important.py that got past the usage, empty-dataset
\* and import checks, on samples whose flags take fewer than 2 values
ImportantDegenerate ==
    /\ pipeline = "train_important"
    /\ TrainingGotIn
    /\ Cardinality({Flag(data[i]) : i \in DOMAIN data}) < 2

\* C2: importance training degenerate guard.  A run of train_important.py on a
\* non-empty sample list whose boolean labels (missing flag = false) take fewer
\* than 2 values ends at once with exit status 0 and the single result
\* {samples: N, skipped: true, reason}, the reason naming the one observed label;
\* it calls neither the embedding provider nor the classifier and writes nothing.
ThmImportantDegenerateGuard ==
    ImportantDegenerate =>
        /\ pc = "done"
        /\ exit_code = 0
        /\ Len(stdout) = 1
        /\ DOMAIN stdout[1] = {"samples", "skipped", "reason"}
        /\ stdout[1].samples = Len(data)
        /\ stdout[1].skipped = TRUE
        /\ stdout[1].reason[2] = BoolStr(Flag(data[1]))
        /\ calls = <<>>

\* three samples, all important, skipped
WitImportantDegenerateGuard ==
    /\ ImportantDegenerate
    /\ Len(data) = 3
    /\ \A i \in DOMAIN data : Flag(data[i])
    /\ stdout # <<>>
    /\ stdout[1].reason[2] = "True"

\* a training run of train_label_router.py that got past the usage,
\* empty-dataset and import checks, on samples that share one target label
RouterDegenerate ==
    /\ pipeline = "train_label_router"
    /\ TrainingGotIn
    /\ Cardinality({Target(data[i]) : i \in DOMAIN data}) < 2

\* C3: router training degenerate guard.  A run of train_label_router.py on a
\* non-empty sample list whose catalog (distinct target labels, missing or empty
\* = "other") has fewer than 2 members ends at once with exit status 0 and a
\* result carrying skipped: true, samples: N and labels: 1; nothing is written.
ThmRouterDegenerateGuard ==
    RouterDegenerate =>
        /\ pc = "done"
        /\ exit_code = 0
        /\ Len(stdout) = 1
        /\ stdout[1].skipped = TRUE
        /\ stdout[1].samples = Len(data)
        /\ stdout[1].labels = 1
        /\ "path" \notin DOMAIN stdout[1]
        /\ calls = <<>>

\* several samples, a missing and an empty label among them, all "other"
WitRouterDegenerateGuard ==
    /\ RouterDegenerate
    /\ Len(data) >= 2
    /\ \E i, j \in DOMAIN data :
        /\ "target_label" \notin DOMAIN data[i]
        /\ "target_label" \in DOMAIN data[j]
    /\ stdout # <<>>
    /\ stdout[1].labels = 1

\* train_label_router.py has pickled its artifact
RouterWritten ==
    /\ pipeline = "train_label_router"
    /\ pc \in {"print", "done"}
    /\ \E i \in DOMAIN calls : calls[i].op = "dump"

\* C4: catalog determinism.  The label_list of the artifact train_label_router.py
\* writes holds the distinct target labels of the samples (missing or empty =
\* "other"), each once, in lexicographic order, and training on any permutation
\* of the samples computes the same label_list.
ThmCatalogDeterminism ==
    RouterWritten =>
        LET ll == files[local.out_path].label_list
        IN  /\ SetOf(ll) = {Target(data[i]) : i \in DOMAIN data}
            /\ \A i, j \in DOMAIN ll : i < j => LexBefore(ll[i], ll[j])
            /\ \A perm \in Reorderings(data) : LabelList(Targets(perm)) = ll

\* three distinct labels given out of order, one of them by default
WitCatalogDeterminism ==
    /\ RouterWritten
    /\ Len(data) = 3
    /\ Target(data[1]) = Word_other
    /\ Target(data[2]) = Word_ab
    /\ Target(data[3]) = Word_a
    /\ files[local.out_path].label_list = <<Word_a, Word_ab, Word_other>>

\* an importance inference has printed its report
ImportantReported == pipeline = "infer_important" /\ pc = "done" /\ stdout # <<>>

\* C5: binary extraction and threshold.  Whenever infer_important.py has printed
\* a report for a probability vector, P(important) is the entry at index 1 when
\* the vector has more than one entry and the sole entry when it has one, and
\* important is true exactly when that probability is >= 0.5.
ThmBinaryThreshold ==
    ImportantReported =>
        LET proba == local.proba
            p     == IF Len(proba) = 1 THEN proba[1] ELSE proba[2]
        IN  /\ local.p_important = p
            /\ stdout[1].important = (2 * p >= Unit)

\* a one-entry vector holding exactly 0.5, reported important
WitBinaryThreshold ==
    /\ ImportantReported
    /\ local.proba = <<Unit \div 2>>
    /\ stdout[1].important = TRUE
    /\ stdout[1].probability = Unit \div 2

\* an inference run that got past the usage and import checks and opened an
\* artifact that lacks the embedding-model identifier or the classifier
IncompleteLoaded ==
    /\ IsInference
    /\ Len(argv) >= 2
    /\ deps
    /\ argv[1] \in DOMAIN files
    /\ ~({"embedder_name", "classifier"} \subseteq DOMAIN files[argv[1]])

\* C6: an inference run that loads an artifact lacking the embedding-model
\* identifier or the classifier fails before it embeds or classifies anything:
\* it ends with a non-zero exit status, no collaborator called, nothing printed.
CexIncompleteArtifactRejected ==
    IncompleteLoaded =>
        /\ pc = "done"
        /\ exit_code # 0
        /\ calls = <<>>
        /\ stdout = <<>>

\* the arguments main() requires are missing
ArgsMissing == Len(argv) < (IF IsTraining THEN 1 ELSE 2)

\* C7: exit-code mapping of the four pipelines.  A finished invocation has exit
\* status 1 when required arguments are missing or (training) the dataset is
\* empty, 2 when these checks passed and an import fails, and 0 when it printed
\* its result, the skipped result included; exactly one JSON result is on stdout
\* when the status is 0 and none when it is 1 or 2; nothing is printed on stdout
\* before the invocation ends.
ThmExitCodes ==
    /\ pc # "done" => stdout = <<>>
    /\ pc = "done" =>
        /\ exit_code \in {0, 1, 2}
        /\ ArgsMissing => exit_code = 1
        /\ (IsTraining /\ ~ArgsMissing /\ data = <<>>) => exit_code = 1
        /\ (~ArgsMissing /\ ~(IsTraining /\ data = <<>>) /\ ~deps) => exit_code = 2
        /\ exit_code = 0 => Len(stdout) = 1
        /\ exit_code # 0 => stdout = <<>>
        /\ (stdout # <<>> /\ "skipped" \in DOMAIN stdout[1]) => exit_code = 0

\* a training run with a data file given, samples in it and an import failing
WitExitCodes ==
    /\ pc = "done"
    /\ IsTraining
    /\ ~ArgsMissing
    /\ data # <<>>
    /\ ~deps
    /\ exit_code = 2
    /\ stderr # <<>>

\* the number of pickle.dump calls in a call log
NumDumps(log) == Cardinality({i \in DOMAIN log : log[i].op = "dump"})

\* the samples of the running training have at least 2 distinct labels
EnoughLabels ==
    IF pipeline = "train_important"
      THEN Cardinality({Flag(data[i]) : i \in DOMAIN data}) >= 2
      ELSE Cardinality({Target(data[i]) : i \in DOMAIN data}) >= 2

\* the path the running training is to write
IntendedPath ==
    IF Len(argv) >= 2 THEN argv[2]
    ELSE IF pipeline = "train_important" THEN ImportantDefaultPath
    ELSE RouterDefaultPath

\* a step that writes a file
WriteStep == files' # files \/ NumDumps(calls') > NumDumps(calls)

\* a step that ends an invocation with the result of a completed training
SuccessStep ==
    /\ IsTraining
    /\ exit_code' = 0
    /\ stdout' # <<>>
    /\ "path" \in DOMAIN stdout'[1]

Trained(path) == path \in DOMAIN files /\ files[path] \notin ExternalArtifacts

\* C9: embedding-model consistency.  Every artifact a training pipeline has
\* written stores the identifier of the model that embedded its samples: the one
\* of the encode call of the run that writes it, which is the one its classifier
\* was fitted on.  Every inference on an artifact that stores an identifier
\* embeds its text with that identifier, whatever EMBEDDING_MODEL is then.
ThmEmbeddingModelConsistency ==
    /\ \A path \in Paths :
        Trained(path) => files[path].embedder_name = files[path].classifier.fitted_on
    /\ (IsTraining /\ NumDumps(calls) > 0) =>
        /\ calls[1].op = "encode"
        /\ files[local.out_path].embedder_name = calls[1].model
    /\ (IsInference /\ calls # <<>> /\ "embedder_name" \in DOMAIN files[argv[1]]) =>
        /\ calls[1].op = "encode"
        /\ calls[1].model = files[argv[1]].embedder_name

\* an inference, run with EMBEDDING_MODEL unset, has embedded its text with the
\* non-default model a training had stored
WitEmbeddingModelConsistency ==
    /\ IsInference
    /\ calls # <<>>
    /\ Trained(argv[1])
    /\ files[argv[1]].embedder_name = CustomModel
    /\ "EMBEDDING_MODEL" \notin DOMAIN environ
    /\ calls[1].model = CustomModel

\* the distance of two probabilities
Dist(x, y) == IF x >= y THEN x - y ELSE y - x

\* C10: in importance inference the flag is decided on the unrounded probability
\* and the reported probability is that value rounded to 4 decimal digits; so a
\* reported probability above 0.5 comes with important = true and one below 0.5
\* with important = false (a reported 0.5 can come with either).
ThmRoundedReport ==
    ImportantReported =>
        LET r == stdout[1]
            p == local.p_important
        IN  /\ r.important = (p >= Unit \div 2)
            /\ r.probability % 100 = 0
            /\ 2 * Dist(r.probability, p) <= 100
            /\ 2 * r.probability > Unit => r.important
            /\ 2 * r.probability < Unit => ~r.important

\* a probability just below 0.5 reported as 0.5 with important = false
WitRoundedReport ==
    /\ ImportantReported
    /\ local.p_important < Unit \div 2
    /\ stdout[1].probability = Unit \div 2
    /\ stdout[1].important = FALSE

====
